---- MODULE Spec2Model ----
(***************************************************************************)
(* Expense tracker (src/app.py, src/models.py): four tables (User,         *)
(* Category, Budget, Expense), the POST handlers that write them, and the  *)
(* monthly report computed from them.                                      *)
(*                                                                         *)
(* Amounts are exact decimals counted in hundredths (1 = 0.01); the        *)
(* rounding of binary floating point is not modelled.  Dates are           *)
(* <<year, month, day>>.  A text field of a form is <<kind, value>>:       *)
(* "blank" (absent or empty), "bad" (not a number) or "num".               *)
(***************************************************************************)
EXTENDS Integers, Sequences, FiniteSets, TLC

VARIABLES users, categories, budgets, expenses, reqs, probe

vars == <<users, categories, budgets, expenses, reqs, probe>>

(* ------------------------------ bounds -------------------------------- *)
MaxUserId == 2
MaxCatId == 2
MaxBudgetId == 2
MaxExpenseId == 2
MaxSpent == 130
MaxBudgetAmount == 110

(* ------------------------------ inputs -------------------------------- *)
UserIds == 1..MaxUserId
CatIds == 0..MaxCatId
RawUserNames == {<<>>, <<" ">>, <<"u">>, <<"u", " ">>}
RawCatNames == {<<>>, <<"a">>, <<" ", "a">>, <<"b">>}
RawMonths == {<<2024, 12>>, <<2025, 1>>, <<2024, 13>>}
RawDates == {<<2024, 12, 31>>, <<2025, 1, 1>>, <<2025, 2, 30>>}
RawBudgetAmounts == {<<"blank", 0>>, <<"bad", 0>>, <<"num", -1>>,
                     <<"num", 0>>, <<"num", 10>>}
RawExpenseAmounts == {<<"bad", 0>>, <<"num", -1>>, <<"num", 0>>,
                      <<"num", 1>>, <<"num", 9>>}
ReportMonths == {<<2024, 11, 1>>, <<2024, 12, 1>>, <<2025, 1, 1>>}

(* ------------------------------ helpers ------------------------------- *)
Max(S) == CHOOSE x \in S : \A y \in S : y <= x

\* str.strip(): leading and trailing blanks removed.
RECURSIVE LStrip(_)
LStrip(s) == IF s # <<>> /\ Head(s) = " " THEN LStrip(Tail(s)) ELSE s
RECURSIVE RStrip(_)
RStrip(s) ==
    IF s # <<>> /\ s[Len(s)] = " " THEN RStrip(SubSeq(s, 1, Len(s) - 1)) ELSE s
Strip(s) == RStrip(LStrip(s))

\* Integer primary key of a new row: one more than the largest rowid in use.
NextId(rows) == IF rows = {} THEN 1 ELSE Max({r.id : r \in rows}) + 1

\* Query.first() without ORDER BY: some matching row, if there is one.
FirstOf(rows) == rows

IsLeap(y) == (y % 4 = 0 /\ y % 100 # 0) \/ y % 400 = 0
DaysInMonth(y, m) ==
    IF m = 2 THEN (IF IsLeap(y) THEN 29 ELSE 28)
    ELSE IF m \in {4, 6, 9, 11} THEN 30 ELSE 31

\* datetime.strptime(s, "%Y-%m-%d") succeeds.
ValidDate(d) ==
    /\ d[1] >= 1
    /\ d[2] \in 1..12
    /\ d[3] >= 1 /\ d[3] <= DaysInMonth(d[1], d[2])
\* datetime.strptime(s, "%Y-%m") succeeds; .date() is the first of the month.
ValidMonth(m) == m[1] >= 1 /\ m[2] \in 1..12
MonthDate(m) == <<m[1], m[2], 1>>
\* date.replace(day=1)
MonthStart(d) == <<d[1], d[2], 1>>

DateLT(a, b) ==
    \/ a[1] < b[1]
    \/ a[1] = b[1] /\ a[2] < b[2]
    \/ a[1] = b[1] /\ a[2] = b[2] /\ a[3] < b[3]
DateGE(a, b) == ~DateLT(a, b)

_next_month(d) ==
    IF d[2] = 12 THEN <<d[1] + 1, 1, 1>> ELSE <<d[1], d[2] + 1, 1>>

RECURSIVE SumAmounts(_)
SumAmounts(rows) ==
    IF rows = {} THEN 0
    ELSE LET r == CHOOSE x \in rows : TRUE
         IN r.amount + SumAmounts(rows \ {r})

Flash(severity, msg, arg) == <<severity, msg, arg>>
Redirect(flashes) == [status |-> "redirect", flashes |-> flashes]
NotFound == [status |-> "not_found", flashes |-> <<>>]

(* ------------------------------ queries ------------------------------- *)
\* The four tables as one value.
Db == [users |-> users, categories |-> categories, budgets |-> budgets,
       expenses |-> expenses]

\* User.query.get_or_404(user_id)
UserRows(db, user_id) == {u \in db.users : u.id = user_id}

\* Category.query.filter_by(user_id=user.id).all()
UserCategories(db, user_id) == {c \in db.categories : c.user_id = user_id}

\* The ids of a set of rows in rowid order.
RECURSIVE SortedIds(_)
SortedIds(ids) ==
    IF ids = {} THEN <<>>
    ELSE LET lo == CHOOSE x \in ids : \A y \in ids : x <= y
         IN <<lo>> \o SortedIds(ids \ {lo})

\* Budget.query.filter_by(user_id=, category_id=, month=)
BudgetRows(bs, user_id, category_id, month) ==
    {b \in bs : b.user_id = user_id /\ b.category_id = category_id
                /\ b.month = month}

\* sum(Expense.amount) over one user's expenses of a month (all categories).
TotalSpent(es, user_id, month_start) ==
    SumAmounts({e \in es : /\ e.user_id = user_id
                           /\ DateGE(e.date, month_start)
                           /\ DateLT(e.date, _next_month(month_start))})

\* Faulty variant: the first day of the next month is counted in the month.
MutCategorySpent(es, user_id, category_id, month_start) ==
    SumAmounts({e \in es : /\ e.user_id = user_id
                           /\ e.category_id = category_id
                           /\ DateGE(e.date, month_start)
                           /\ ~DateLT(_next_month(month_start), e.date)})
\* sum(Expense.amount) over one user's expenses of a month and a category.
CategorySpent(es, user_id, category_id, month_start) ==
    SumAmounts({e \in es : /\ e.user_id = user_id
                           /\ e.category_id = category_id
                           /\ DateGE(e.date, month_start)
                           /\ DateLT(e.date, _next_month(month_start))})

(* --------------------------- budget status ---------------------------- *)
\* remaining <= 0.1 * amount, in hundredths.
WithinTenth(remaining, amount) == 10 * remaining <= amount

\* Faulty variant: the near-limit test is made before the exceeded test.
MutReportStatus(budget_amount, spent) ==
    LET remaining == budget_amount - spent
    IN IF budget_amount > 0 /\ WithinTenth(remaining, budget_amount)
       THEN "near_limit"
       ELSE IF remaining < 0 THEN "exceeded" ELSE "ok"
\* monthly_report: the status of one category.
ReportStatus(budget_amount, spent) ==
    LET remaining == budget_amount - spent
    IN IF remaining < 0 THEN "exceeded"
       ELSE IF budget_amount > 0 /\ WithinTenth(remaining, budget_amount)
            THEN "near_limit"
            ELSE "ok"

\* create_expense: what is flashed for the Budget row found for the month.
ExpenseAlert(budget_amount, total_spent) ==
    LET remaining == budget_amount - total_spent
    IN IF remaining < 0
       THEN <<Flash("warning", "Budget exceeded", -remaining)>>
       ELSE IF budget_amount > 0 /\ WithinTenth(remaining, budget_amount)
            THEN <<Flash("info", "10% or less remaining", remaining)>>
            ELSE <<>>

\* monthly_report: the per_category entries a request can produce.
ReportRows(db, user_id, month_start) ==
    UNION {
      LET spent == CategorySpent(db.expenses, user_id, c.id, month_start)
          found == FirstOf(BudgetRows(db.budgets, user_id, c.id, month_start))
          amounts == IF found = {} THEN {0} ELSE {b.amount : b \in found}
      IN {[category |-> c.id, budget |-> a, spent |-> spent,
           remaining |-> a - spent, status |-> ReportStatus(a, spent)]
          : a \in amounts}
      : c \in UserCategories(db, user_id)}

\* monthly_report: total_spent.
ReportTotal(db, user_id, month_start) ==
    TotalSpent(db.expenses, user_id, month_start)

(* ------------------------------ handlers ------------------------------ *)
\* Each handler, for a POST with the given fields on tables db, yields the
\* outcomes it can have: the tables after it and the response it sends.
Outcome(db, response) == [db |-> db, resp |-> response]

create_user(db, name_raw) ==
    LET name == Strip(name_raw)
    IN IF name = <<>>
       THEN {Outcome(db, Redirect(<<Flash("error", "Name is required.", 0)>>))}
       ELSE {Outcome(
               [db EXCEPT !.users = @ \cup
                  {[id |-> NextId(db.users), name |-> name]}],
               Redirect(<<Flash("success", "User created.", 0)>>))}

\* Faulty variant: the user's Budget rows are not deleted.
MutDeleteUser(db, user_id) ==
    IF UserRows(db, user_id) = {} THEN {Outcome(db, NotFound)}
    ELSE {Outcome(
            [users |-> db.users \ UserRows(db, user_id),
             categories |-> {c \in db.categories : c.user_id # user_id},
             budgets |-> db.budgets,
             expenses |-> {e \in db.expenses : e.user_id # user_id}],
            Redirect(<<Flash("success", "User deleted.", 0)>>))}
delete_user(db, user_id) ==
    IF UserRows(db, user_id) = {} THEN {Outcome(db, NotFound)}
    ELSE {Outcome(
            [users |-> db.users \ UserRows(db, user_id),
             categories |-> {c \in db.categories : c.user_id # user_id},
             budgets |-> {b \in db.budgets : b.user_id # user_id},
             expenses |-> {e \in db.expenses : e.user_id # user_id}],
            Redirect(<<Flash("success", "User deleted.", 0)>>))}

\* Faulty variant: the duplicate lookup does not filter by user.
MutManageCategories(db, user_id, name_raw) ==
    LET name == Strip(name_raw)
        existing == FirstOf({c \in db.categories : c.name = name})
    IN IF UserRows(db, user_id) = {} THEN {Outcome(db, NotFound)}
       ELSE IF name = <<>>
       THEN {Outcome(db, Redirect(
               <<Flash("error", "Category name is required.", 0)>>))}
       ELSE IF existing # {}
       THEN {Outcome(db, Redirect(
               <<Flash("error", "Category with this name already exists.", 0)>>))}
       ELSE {Outcome(
               [db EXCEPT !.categories = @ \cup
                  {[id |-> NextId(db.categories), name |-> name,
                    user_id |-> user_id]}],
               Redirect(<<Flash("success", "Category created.", 0)>>))}
manage_categories(db, user_id, name_raw) ==
    LET name == Strip(name_raw)
        existing == FirstOf({c \in db.categories :
                               c.user_id = user_id /\ c.name = name})
    IN IF UserRows(db, user_id) = {} THEN {Outcome(db, NotFound)}
       ELSE IF name = <<>>
       THEN {Outcome(db, Redirect(
               <<Flash("error", "Category name is required.", 0)>>))}
       ELSE IF existing # {}
       THEN {Outcome(db, Redirect(
               <<Flash("error", "Category with this name already exists.", 0)>>))}
       ELSE {Outcome(
               [db EXCEPT !.categories = @ \cup
                  {[id |-> NextId(db.categories), name |-> name,
                    user_id |-> user_id]}],
               Redirect(<<Flash("success", "Category created.", 0)>>))}

\* float(raw_value) succeeded and the amount is not negative.
BudgetAmountOk(raw_value) == raw_value[1] = "num" /\ raw_value[2] >= 0

\* What one pass of the loop over the user's categories decides for a field,
\* given the session's view bs of the Budget table: skip it, flash an error,
\* set the amount of the row found, or add a row.
Op(kind, category_id, id, amount) ==
    [kind |-> kind, category_id |-> category_id, id |-> id, amount |-> amount]
BudgetOp(bs, user_id, category_id, month, raw_value) ==
    IF raw_value[1] = "blank" THEN {Op("skip", category_id, 0, 0)}
    ELSE IF ~BudgetAmountOk(raw_value) THEN {Op("error", category_id, 0, 0)}
    ELSE LET found == FirstOf(BudgetRows(bs, user_id, category_id, month))
         IN IF found = {}
            THEN {Op("insert", category_id, 0, raw_value[2])}
            ELSE {Op("update", category_id, b.id, raw_value[2]) : b \in found}

\* Variant with a storage-level uniqueness rule on (user, category, month):
\* a second row for a triple is not stored.
MutApplyOp(bs, user_id, month, op) ==
    IF op.kind = "insert"
    THEN IF BudgetRows(bs, user_id, op.category_id, month) # {} THEN bs
         ELSE bs \cup {[id |-> NextId(bs), user_id |-> user_id,
                        category_id |-> op.category_id, month |-> month,
                        amount |-> op.amount]}
    ELSE IF op.kind = "update"
    THEN {IF b.id = op.id THEN [b EXCEPT !.amount = op.amount] ELSE b : b \in bs}
    ELSE bs
\* The Budget table after the write an op stands for: budget.amount = amount
\* on the row found, or db.session.add(Budget(...)).
ApplyOp(bs, user_id, month, op) ==
    IF op.kind = "insert"
    THEN bs \cup {[id |-> NextId(bs), user_id |-> user_id,
                   category_id |-> op.category_id, month |-> month,
                   amount |-> op.amount]}
    ELSE IF op.kind = "update"
    THEN {IF b.id = op.id THEN [b EXCEPT !.amount = op.amount] ELSE b : b \in bs}
    ELSE bs

RECURSIVE ApplyOps(_, _, _, _)
ApplyOps(bs, user_id, month, ops) ==
    IF ops = <<>> THEN bs
    ELSE ApplyOps(ApplyOp(bs, user_id, month, Head(ops)), user_id, month,
                  Tail(ops))

OpFlashes(op) ==
    IF op.kind = "error"
    THEN <<Flash("error", "Invalid budget amount", op.category_id)>>
    ELSE <<>>

\* Faulty variant: a row is added even when the lookup found one.
MutManageBudgetsItem(acc, user_id, category_id, month, raw_value) ==
    {[budgets |-> ApplyOp(acc.budgets, user_id, month,
                          IF op.kind = "update"
                          THEN Op("insert", category_id, 0, op.amount) ELSE op),
      flashes |-> acc.flashes \o OpFlashes(op)]
     : op \in BudgetOp(acc.budgets, user_id, category_id, month, raw_value)}
\* One pass of the loop: acc is the session's view of the Budget table and
\* the flashes so far.
manage_budgets_item(acc, user_id, category_id, month, raw_value) ==
    {[budgets |-> ApplyOp(acc.budgets, user_id, month, op),
      flashes |-> acc.flashes \o OpFlashes(op)]
     : op \in BudgetOp(acc.budgets, user_id, category_id, month, raw_value)}

RECURSIVE manage_budgets_loop(_, _, _, _, _)
manage_budgets_loop(todo, acc, user_id, month, form) ==
    IF todo = <<>> THEN {acc}
    ELSE UNION {manage_budgets_loop(Tail(todo), a, user_id, month, form)
                : a \in manage_budgets_item(acc, user_id, Head(todo), month,
                                            form[Head(todo)])}

\* Faulty variant: one rejected field discards the whole submission.
MutManageBudgets(db, user_id, month_raw, form) ==
    IF UserRows(db, user_id) = {} THEN {Outcome(db, NotFound)}
    ELSE IF ~ValidMonth(month_raw)
    THEN {Outcome(db, Redirect(<<Flash("error", "Invalid month format.", 0)>>))}
    ELSE {IF acc.flashes # <<>> THEN Outcome(db, Redirect(acc.flashes))
          ELSE Outcome([db EXCEPT !.budgets = acc.budgets],
                       Redirect(<<Flash("success", "Budgets saved.", 0)>>))
          : acc \in manage_budgets_loop(
                      SortedIds({c.id : c \in UserCategories(db, user_id)}),
                      [budgets |-> db.budgets, flashes |-> <<>>],
                      user_id, MonthDate(month_raw), form)}
manage_budgets(db, user_id, month_raw, form) ==
    IF UserRows(db, user_id) = {} THEN {Outcome(db, NotFound)}
    ELSE IF ~ValidMonth(month_raw)
    THEN {Outcome(db, Redirect(<<Flash("error", "Invalid month format.", 0)>>))}
    ELSE {Outcome([db EXCEPT !.budgets = acc.budgets],
                  Redirect(Append(acc.flashes,
                                  Flash("success", "Budgets saved.", 0))))
          : acc \in manage_budgets_loop(
                      SortedIds({c.id : c \in UserCategories(db, user_id)}),
                      [budgets |-> db.budgets, flashes |-> <<>>],
                      user_id, MonthDate(month_raw), form)}

\* Faulty variant: a zero amount is accepted.
MutExpenseAmountOk(amount_raw) == amount_raw[1] = "num" /\ amount_raw[2] >= 0
\* float(amount_raw) succeeded and the amount is strictly positive.
ExpenseAmountOk(amount_raw) == amount_raw[1] = "num" /\ amount_raw[2] > 0

\* Faulty variant: the category lookup does not filter by user, and no
\* budget alert is raised.
MutCreateExpense(db, user_id, category_id, amount_raw, date_raw) ==
    LET category == FirstOf({c \in db.categories : c.id = category_id})
        saved == db.expenses \cup
                   {[id |-> NextId(db.expenses), user_id |-> user_id,
                     category_id |-> category_id, amount |-> amount_raw[2],
                     date |-> date_raw]}
    IN IF UserRows(db, user_id) = {} THEN {Outcome(db, NotFound)}
       ELSE IF ~ExpenseAmountOk(amount_raw)
       THEN {Outcome(db, Redirect(
               <<Flash("error", "Amount must be a positive number.", 0)>>))}
       ELSE IF ~ValidDate(date_raw)
       THEN {Outcome(db, Redirect(<<Flash("error", "Invalid date.", 0)>>))}
       ELSE IF category = {}
       THEN {Outcome(db, Redirect(<<Flash("error", "Invalid category.", 0)>>))}
       ELSE {Outcome([db EXCEPT !.expenses = saved],
                     Redirect(<<Flash("success", "Expense recorded.", 0)>>))}
create_expense(db, user_id, category_id, amount_raw, date_raw) ==
    LET category == FirstOf({c \in db.categories :
                               c.id = category_id /\ c.user_id = user_id})
        month_start == MonthStart(date_raw)
        saved == db.expenses \cup
                   {[id |-> NextId(db.expenses), user_id |-> user_id,
                     category_id |-> category_id, amount |-> amount_raw[2],
                     date |-> date_raw]}
        found == FirstOf(BudgetRows(db.budgets, user_id, category_id,
                                    month_start))
        alerts == IF found = {} THEN {<<>>}
                  ELSE {ExpenseAlert(b.amount,
                           CategorySpent(saved, user_id, category_id,
                                         month_start)) : b \in found}
    IN IF UserRows(db, user_id) = {} THEN {Outcome(db, NotFound)}
       ELSE IF ~ExpenseAmountOk(amount_raw)
       THEN {Outcome(db, Redirect(
               <<Flash("error", "Amount must be a positive number.", 0)>>))}
       ELSE IF ~ValidDate(date_raw)
       THEN {Outcome(db, Redirect(<<Flash("error", "Invalid date.", 0)>>))}
       ELSE IF category = {}
       THEN {Outcome(db, Redirect(<<Flash("error", "Invalid category.", 0)>>))}
       ELSE {Outcome([db EXCEPT !.expenses = saved],
                     Redirect(Append(alert,
                                     Flash("success", "Expense recorded.", 0))))
             : alert \in alerts}

(* --------------------------- the state machine ------------------------ *)
Requests == 1..2
Idle == [pc |-> "idle", user_id |-> 0, month |-> <<0, 0, 0>>, form |-> <<>>,
         todo |-> <<>>, ops |-> <<>>]
NoProbe == [spent |-> 0, budget |-> 0, report |-> "none", alerted |-> FALSE,
            alert |-> <<>>]

Forms == [1..MaxCatId -> RawBudgetAmounts]

InBounds(db) ==
    /\ \A u \in db.users : u.id <= MaxUserId
    /\ \A c \in db.categories : c.id <= MaxCatId
    /\ \A b \in db.budgets : b.id <= MaxBudgetId
    /\ \A e \in db.expenses : e.id <= MaxExpenseId

\* A request handled to completion: the tables become those of an outcome.
Handle(outcomes) ==
    \E out \in outcomes :
        /\ InBounds(out.db)
        /\ users' = out.db.users
        /\ categories' = out.db.categories
        /\ budgets' = out.db.budgets
        /\ expenses' = out.db.expenses
        /\ UNCHANGED <<reqs, probe>>

Init ==
    /\ users = {}
    /\ categories = {}
    /\ budgets = {}
    /\ expenses = {}
    /\ reqs = [r \in Requests |-> Idle]
    /\ probe = NoProbe

CreateUser == \E n \in RawUserNames : Handle(create_user(Db, n))
DeleteUser == \E u \in UserIds : Handle(delete_user(Db, u))
CreateCategory ==
    \E u \in UserIds, n \in RawCatNames : Handle(manage_categories(Db, u, n))
UpsertBudget ==
    \E u \in UserIds, m \in RawMonths, f \in Forms :
        Handle(manage_budgets(Db, u, m, f))
CreateExpense ==
    \E u \in UserIds, c \in CatIds, a \in RawExpenseAmounts, d \in RawDates :
        Handle(create_expense(Db, u, c, a, d))

Next ==
    \/ CreateUser
    \/ DeleteUser
    \/ CreateCategory
    \/ UpsertBudget
    \/ CreateExpense

Spec == Init /\ [][Next]_vars

(* ------------------- two concurrent budget requests ------------------- *)
\* Two POSTs to manage_budgets run side by side on tables holding one user
\* with two categories and no budget.  A request reads the committed Budget
\* table and its own pending writes; its writes reach the table at commit.
RaceRaw == {<<"blank", 0>>, <<"num", -1>>, <<"num", 0>>, <<"num", 10>>}
RaceForms == [{1, 2} -> RaceRaw]

InitRace ==
    /\ users = {[id |-> 1, name |-> <<"u">>]}
    /\ categories = {[id |-> 1, name |-> <<"a">>, user_id |-> 1],
                     [id |-> 2, name |-> <<"b">>, user_id |-> 1]}
    /\ budgets = {}
    /\ expenses = {}
    /\ reqs = [r \in Requests |-> Idle]
    /\ probe = NoProbe

\* The request loads the user and the categories and parses the month.
BeginUpsert(r) ==
    \E u \in UserIds, m \in RawMonths, f \in RaceForms :
        /\ reqs[r].pc = "idle"
        /\ reqs' = [reqs EXCEPT ![r] =
              IF UserRows(Db, u) = {} \/ ~ValidMonth(m)
              THEN [Idle EXCEPT !.pc = "done"]
              ELSE [pc |-> "loop", user_id |-> u, month |-> MonthDate(m),
                    form |-> f,
                    todo |-> SortedIds({c.id : c \in UserCategories(Db, u)}),
                    ops |-> <<>>]]
        /\ UNCHANGED <<users, categories, budgets, expenses, probe>>

\* One pass of the loop: the lookup for the next category and its decision.
LookupStep(r) ==
    LET q == reqs[r]
    IN /\ q.pc = "loop" /\ q.todo # <<>>
       /\ \E op \in BudgetOp(ApplyOps(budgets, q.user_id, q.month, q.ops),
                             q.user_id, Head(q.todo), q.month,
                             q.form[Head(q.todo)]) :
            reqs' = [reqs EXCEPT ![r].todo = Tail(q.todo),
                                 ![r].ops = Append(q.ops, op)]
       /\ UNCHANGED <<users, categories, budgets, expenses, probe>>

\* db.session.commit()
CommitStep(r) ==
    LET q == reqs[r]
    IN /\ q.pc = "loop" /\ q.todo = <<>>
       /\ budgets' = ApplyOps(budgets, q.user_id, q.month, q.ops)
       /\ reqs' = [reqs EXCEPT ![r].pc = "done"]
       /\ UNCHANGED <<users, categories, expenses, probe>>

NextRace ==
    \/ \E r \in Requests : BeginUpsert(r)
    \/ \E r \in Requests : LookupStep(r)
    \/ \E r \in Requests : CommitStep(r)

SpecRace == InitRace /\ [][NextRace]_vars

(* ------------------------- the status functions ----------------------- *)
\* The two places that classify a spend against a budget amount, applied to
\* every pair within the bounds.
InitStatus ==
    /\ users = {}
    /\ categories = {}
    /\ budgets = {}
    /\ expenses = {}
    /\ reqs = [r \in Requests |-> Idle]
    /\ probe \in [spent : 0..MaxSpent, budget : 0..MaxBudgetAmount,
                  report : {"none"}, alerted : {FALSE}, alert : {<<>>}]

ClassifyReport ==
    /\ probe.report = "none"
    /\ probe' = [probe EXCEPT !.report = ReportStatus(probe.budget, probe.spent)]
    /\ UNCHANGED <<users, categories, budgets, expenses, reqs>>

ClassifyAlert ==
    /\ ~probe.alerted
    /\ probe' = [probe EXCEPT !.alerted = TRUE,
                              !.alert = ExpenseAlert(probe.budget, probe.spent)]
    /\ UNCHANGED <<users, categories, budgets, expenses, reqs>>

NextStatus ==
    \/ ClassifyReport
    \/ ClassifyAlert

SpecStatus == InitStatus /\ [][NextStatus]_vars

(* ------------------------------ properties ---------------------------- *)
Errors(response) ==
    {i \in 1..Len(response.flashes) : response.flashes[i][1] = "error"}
IsValidationError(response) ==
    response.status = "redirect" /\ Errors(response) # {}
Succeeded(response) ==
    response.status = "redirect" /\ Errors(response) = {}
HasFlash(response, flash) ==
    \E i \in 1..Len(response.flashes) : response.flashes[i] = flash
SameTriple(b1, b2) ==
    /\ b1.user_id = b2.user_id
    /\ b1.category_id = b2.category_id
    /\ b1.month = b2.month

\* C1: after any sequence of commands there is at most one Budget row per
\* (user, category, month); and a budget submission from an existing user
\* with a valid month leaves, for each of the user's categories that carries
\* a well-formed amount, exactly one row for the triple, holding that amount.
BudgetUniqueAndLatest ==
    /\ \A b1, b2 \in budgets : SameTriple(b1, b2) => b1 = b2
    /\ \A u \in UserIds, m \in RawMonths, f \in Forms :
         \A out \in manage_budgets(Db, u, m, f) :
           (UserRows(Db, u) # {} /\ ValidMonth(m)) =>
             \A c \in UserCategories(Db, u) :
               (f[c.id][1] = "num" /\ f[c.id][2] >= 0) =>
                 \E b \in out.db.budgets :
                   /\ BudgetRows(out.db.budgets, u, c.id, MonthDate(m)) = {b}
                   /\ b.amount = f[c.id][2]

\* A Budget row exists and a submission of a different amount for its triple
\* replaces the amount in that one row.
BudgetResubmitted ==
    \E b \in budgets, f \in Forms :
      /\ f[b.category_id] = <<"num", 0>>
      /\ b.amount = 10
      /\ b.month = <<2025, 1, 1>>
      /\ \E out \in manage_budgets(Db, b.user_id, <<2025, 1>>, f) :
           /\ Cardinality(out.db.budgets) = Cardinality(budgets)
           /\ [b EXCEPT !.amount = 0] \in out.db.budgets

\* C2: deleting an existing user leaves no User, Category, Budget or Expense
\* row of that user and leaves every row of every other user as it was.
DeleteUserCascade ==
    \A u \in UserIds :
      \A out \in delete_user(Db, u) :
        UserRows(Db, u) # {} =>
          /\ \A x \in out.db.users : x.id # u
          /\ \A x \in out.db.categories \cup out.db.budgets \cup out.db.expenses :
               x.user_id # u
          /\ {x \in out.db.users : x.id # u} = {x \in users : x.id # u}
          /\ {x \in out.db.categories : x.user_id # u}
               = {x \in categories : x.user_id # u}
          /\ {x \in out.db.budgets : x.user_id # u}
               = {x \in budgets : x.user_id # u}
          /\ {x \in out.db.expenses : x.user_id # u}
               = {x \in expenses : x.user_id # u}

\* Two users each own a category, a budget and an expense, and deleting the
\* first leaves exactly the rows of the second.
DeleteWithTwoOwners ==
    /\ \A u \in {1, 2} :
         /\ UserCategories(Db, u) # {}
         /\ \E b \in budgets : b.user_id = u
         /\ \E e \in expenses : e.user_id = u
    /\ \E out \in delete_user(Db, 1) :
         /\ Cardinality(out.db.users) = 1
         /\ Cardinality(out.db.categories) = 1
         /\ Cardinality(out.db.budgets) = 1
         /\ Cardinality(out.db.expenses) = 1

\* C3: for an existing user, a category name (after trimming) that one of
\* the user's categories already has is refused with the conflict message
\* and nothing changes; a name the user does not have yet is added for that
\* user even when another user has it; so no two categories of one user
\* ever share a name.
CategoryNameUnique ==
    /\ \A u \in UserIds, n \in RawCatNames :
         \A out \in manage_categories(Db, u, n) :
           (UserRows(Db, u) # {} /\ Strip(n) # <<>>) =>
             IF \E c \in categories : c.user_id = u /\ c.name = Strip(n)
             THEN /\ out.db = Db
                  /\ HasFlash(out.resp,
                       Flash("error", "Category with this name already exists.", 0))
             ELSE /\ Succeeded(out.resp)
                  /\ \E c \in out.db.categories :
                       /\ c \notin categories
                       /\ c.user_id = u /\ c.name = Strip(n)
                       /\ out.db = [Db EXCEPT !.categories = @ \cup {c}]
    /\ \A c1, c2 \in categories :
         (c1.user_id = c2.user_id /\ c1.name = c2.name) => c1 = c2

\* Both users have a category of the same name, and a further category of
\* that name is refused for the first user.
SameNameTwoUsers ==
    /\ \E c1, c2 \in categories :
         c1.user_id = 1 /\ c2.user_id = 2 /\ c1.name = c2.name
    /\ \E out \in manage_categories(Db, 1, <<" ", "a">>) :
         out.db = Db /\ IsValidationError(out.resp)

CalendarDates == {<<2024, 12, 31>>, <<2025, 1, 1>>}

\* C4: for an existing user, an expense whose amount is zero, negative or
\* not a number, whose date is not a calendar date, or whose category is
\* not one of the user's, is refused with an error and no table changes;
\* otherwise exactly one Expense row with the submitted values is added and
\* nothing else changes.
ExpenseValidation ==
    \A u \in UserIds, c \in CatIds, a \in RawExpenseAmounts, d \in RawDates :
      \A out \in create_expense(Db, u, c, a, d) :
        UserRows(Db, u) # {} =>
          IF \/ a[1] # "num" \/ a[2] <= 0
             \/ d \notin CalendarDates
             \/ ~\E k \in categories : k.id = c /\ k.user_id = u
          THEN out.db = Db /\ IsValidationError(out.resp)
          ELSE /\ Succeeded(out.resp)
               /\ \E e \in out.db.expenses :
                    /\ e \notin expenses
                    /\ e.user_id = u /\ e.category_id = c
                    /\ e.amount = a[2] /\ e.date = d
                    /\ out.db = [Db EXCEPT !.expenses = @ \cup {e}]

\* An expense of 0.01 has been recorded, and in that state a zero amount is
\* refused for the same user, category and date.
SmallestExpenseRecorded ==
    \E e \in expenses :
      /\ e.amount = 1
      /\ \A out \in create_expense(Db, e.user_id, e.category_id,
                                   <<"num", 0>>, e.date) :
           out.db = Db /\ IsValidationError(out.resp)

\* The month of a date, as the claim counts it: same year, same month.
InMonth(d, m) == d[1] = m[1] /\ d[2] = m[2]

\* C6: the spend of a user (and of one category of the user) in the month
\* starting at m is the sum of the amounts of exactly the user's (and the
\* category's) expenses dated in that calendar month, 0 when there is none;
\* the month after December of a year is January of the next.
MonthlySpendIsMonthSum ==
    /\ _next_month(<<2024, 12, 1>>) = <<2025, 1, 1>>
    /\ _next_month(<<2024, 11, 1>>) = <<2024, 12, 1>>
    /\ \A u \in UserIds, m \in ReportMonths :
         /\ TotalSpent(expenses, u, m)
              = SumAmounts({e \in expenses :
                              e.user_id = u /\ InMonth(e.date, m)})
         /\ \A c \in 1..MaxCatId :
              CategorySpent(expenses, u, c, m)
                = SumAmounts({e \in expenses :
                                /\ e.user_id = u /\ e.category_id = c
                                /\ InMonth(e.date, m)})

\* One category holds an expense on 31 December and one on 1 January: the
\* December spend counts the first alone.
SpendAcrossNewYear ==
    \E e1, e2 \in expenses :
      /\ e1.date = <<2024, 12, 31>> /\ e2.date = <<2025, 1, 1>>
      /\ e1.user_id = e2.user_id /\ e1.category_id = e2.category_id
      /\ e1.amount # e2.amount
      /\ CategorySpent(expenses, e1.user_id, e1.category_id, <<2024, 12, 1>>)
           = e1.amount

AlertStatus(response) ==
    IF \E i \in 1..Len(response.flashes) : response.flashes[i][1] = "warning"
    THEN "exceeded"
    ELSE IF \E i \in 1..Len(response.flashes) : response.flashes[i][1] = "info"
    THEN "near_limit"
    ELSE "ok"

\* C9: the status a successful create_expense reports for the expense's
\* category and month is the status monthly_report gives that category and
\* month on the tables with the expense saved.
ExpenseAlertMatchesReport ==
    \A u \in UserIds, c \in CatIds, a \in RawExpenseAmounts, d \in RawDates :
      \A out \in create_expense(Db, u, c, a, d) :
        out.db # Db =>
          \A r \in ReportRows(out.db, u, MonthStart(d)) :
            r.category = c => r.status = AlertStatus(out.resp)

\* C10: every Category row names an existing user; every Budget and Expense
\* row names an existing user and a category of that user; and the total
\* monthly spend of a report is the sum of its per-category spends.
ReferentialIntegrity ==
    /\ \A c \in categories : UserRows(Db, c.user_id) # {}
    /\ \A x \in budgets \cup expenses :
         /\ UserRows(Db, x.user_id) # {}
         /\ \E c \in categories : c.id = x.category_id /\ c.user_id = x.user_id
    /\ \A u \in users, m \in ReportMonths :
         ReportTotal(Db, u.id, m)
           = SumAmounts({[category |-> r.category, amount |-> r.spent]
                         : r \in ReportRows(Db, u.id, m)})

\* User 2 was deleted and created again (its id is reused) while user 1
\* keeps expenses in two categories of one month.
IdReusedAfterDelete ==
    /\ \E x \in users : x.id = 2
    /\ UserCategories(Db, 2) = {}
    /\ \E e1, e2 \in expenses :
         /\ e1.user_id = 1 /\ e2.user_id = 1
         /\ e1.category_id # e2.category_id
         /\ e1.date = e2.date

\* The status a flashed alert stands for.
AlertKind(alert) ==
    IF alert = <<>> THEN "ok"
    ELSE IF alert[1][1] = "warning" THEN "exceeded" ELSE "near_limit"

\* C5: with remaining = budget - spent, both classifications give EXCEEDED
\* exactly when remaining < 0, NEAR_LIMIT exactly when remaining >= 0, the
\* budget is positive and remaining is at most a tenth of it, and OK
\* otherwise; (120, 100) is EXCEEDED by 20, (95, 100) NEAR_LIMIT, (50, 100)
\* OK and (0, 0) OK.
BudgetStatusCases ==
    LET remaining == probe.budget - probe.spent
        expected ==
            IF remaining < 0 THEN "exceeded"
            ELSE IF probe.budget > 0 /\ 10 * remaining <= probe.budget
                 THEN "near_limit" ELSE "ok"
    IN /\ probe.report # "none" => probe.report = expected
       /\ probe.alerted =>
            /\ AlertKind(probe.alert) = expected
            /\ probe.alert # <<>> =>
                 probe.alert[1][3] = (IF remaining < 0 THEN -remaining
                                      ELSE remaining)
       /\ ReportStatus(100, 120) = "exceeded"
       /\ ExpenseAlert(100, 120) = <<Flash("warning", "Budget exceeded", 20)>>
       /\ ReportStatus(100, 95) = "near_limit"
       /\ ReportStatus(100, 50) = "ok"
       /\ ReportStatus(0, 0) = "ok"

\* Both places have classified a spend of 90 against a budget of 100, just
\* on the tenth, as NEAR_LIMIT.
ClassifiedOnTheTenth ==
    /\ probe.spent = 90 /\ probe.budget = 100
    /\ probe.report = "near_limit"
    /\ probe.alerted /\ AlertKind(probe.alert) = "near_limit"

\* C8: when two requests that each found no Budget row for the same (user,
\* category, month) have both committed, the table holds two rows for that
\* triple.
RaceLeavesDuplicates ==
    \A c \in {1, 2} :
      ( /\ \A r \in Requests :
             /\ reqs[r].pc = "done"
             /\ \E i \in 1..Len(reqs[r].ops) :
                  reqs[r].ops[i].kind = "insert"
                  /\ reqs[r].ops[i].category_id = c
        /\ reqs[1].user_id = reqs[2].user_id
        /\ reqs[1].month = reqs[2].month )
      => Cardinality(BudgetRows(budgets, reqs[1].user_id, c, reqs[1].month)) = 2

\* Both requests are done and two Budget rows share a triple.
DuplicateBudgetRows ==
    /\ \A r \in Requests : reqs[r].pc = "done"
    /\ \E b1, b2 \in budgets : b1 # b2 /\ SameTriple(b1, b2)
====
